---- MODULE Spec2Model ----
(***************************************************************************)
(* Model of the Petfinder API client (backend/app/pf_client.py): the       *)
(* constructor, the OAuth token cache (_ensure_token), the authenticated   *)
(* GET with its single retry on 401 (_get) and the paginating generator    *)
(* (iter_animals).                                                         *)
(*                                                                         *)
(* Python values: None is the string NoneV; a key that may be missing from *)
(* a JSON object is a sequence of length 0 (missing) or 1 (present), read  *)
(* with Get(o, default) as dict.get(key, default) reads it.  JSON numbers  *)
(* are integers, on which int() changes nothing.  Time is in seconds.      *)
(***************************************************************************)
EXTENDS Integers, Sequences, FiniteSets, TLC

\* ------------------------------ bounds ---------------------------------
MaxTicks == 3          \* the clock advances at most MaxTicks times
MaxPage == 2           \* page numbers the server reports: 1..MaxPage
MaxRequests == 2       \* page requests recorded per iteration
MaxRuns == 2           \* runs of main(), one after the other

\* ------------------------- program constants ---------------------------
Margin == 60
DefaultExpiresIn == 3600
DefaultLimit == 100
FirstPage == 1
Unauthorized == 401

\* ----------------------------- inputs ----------------------------------
NoneV == "<None>"
CredVals == {NoneV, "", "id"}           \* a credential argument
EnvVals == {NoneV, "", "env"}           \* os.getenv(...) of a credential
Tokens == {"", "A", "B"}                \* access_token of an exchange
ExpiresIns == {<<>>, <<60>>, <<180>>}   \* expires_in, possibly missing
TokStatuses == {200, 401}               \* status of the token exchange
Statuses == {200, 401, 500}             \* status of an authenticated GET
TokResponses ==
  [status : TokStatuses, access_token : Tokens, expires_in : ExpiresIns]
IterIds == {1}

\* An iter_animals call: the keyword arguments limit and page, if given.
ParamSets == [limit : {<<>>, <<50>>}, page : {<<>>, <<2>>}]

\* A /animals response: the "animals" array and the "pagination" object, both
\* optional, as are the two counters of the pagination object.
AnimalLists == {<<>>, << <<>> >>, << <<1>> >>, << <<1, 2>> >>}
OptPages == {<<>>} \cup {<<n>> : n \in 1..MaxPage}
Paginations ==
  {<<>>} \cup {<<[current_page |-> c, total_pages |-> t]>> : c \in OptPages, t \in OptPages}
PageBodies == [animals : AnimalLists, pagination : Paginations]

VARIABLES
  cstate,         \* "unconstructed", "ready" or "failed" (constructor raised)
  ctor,           \* the constructor's inputs (arguments and environment)
  client_id,      \* self.client_id
  client_secret,  \* self.client_secret
  token,          \* self._token
  token_exp,      \* self._token_exp
  now,            \* time.time()
  pc,             \* position inside _get: "idle","get1","headers2","get2","returned"
  owner,          \* caller of the running _get: 0 get_types, i iterator i
  call,           \* what the running (or last) _get call has done so far
  its,            \* the generators returned by iter_animals
  pure,           \* the last application of a pure function of etl/sample_query.py
  sink,           \* the database: committed rows, open transaction, dialect
  etl             \* the run of main(): position, mapped rows, sink operations

vars == <<cstate, ctor, client_id, client_secret, token, token_exp, now,
          pc, owner, call, its, pure, sink, etl>>
ctorVars == <<cstate, ctor, client_id, client_secret>>
etlVars == <<pure, sink, etl>>

\* ----------------------------- helpers ---------------------------------
\* Python truthiness of an optional string.
Truthy(s) == s # NoneV /\ s # ""

\* Python "a or b".
Or(a, b) == IF Truthy(a) THEN a ELSE b

\* dict.get(key, default) on a possibly missing key.
Get(o, default) == IF Len(o) = 0 THEN default ELSE o[1]

\* requests.Response.raise_for_status raises on 4xx and 5xx.
RaisesForStatus(status) == status >= 400 /\ status < 600

\* A generator that was never created.
NoIter ==
  [state |-> "none", params |-> [limit |-> <<>>, page |-> <<>>],
   q |-> [limit |-> 0, page |-> 0], data |-> <<>>, idx |-> 0,
   reqs |-> <<>>, resps |-> <<>>, yielded |-> <<>>, echoed |-> TRUE]

\* The record of a _get call that has not done anything yet.
NewCall(tok, exp, t) ==
  [start |-> [token |-> tok, token_exp |-> exp, now |-> t],
   xs |-> <<>>, sts |-> <<>>, hdrs |-> <<>>, invals |-> 0,
   outcome |-> "running"]

NoCall == [NewCall(NoneV, 0, 0) EXCEPT !.outcome = "none"]

\* No pure function has been applied.
NoPure ==
  [fn |-> "none", ts |-> <<>>, local |-> 0,
   dt |-> [kind |-> "none", wall |-> 0, off |-> <<>>],
   dialect |-> "", sql |-> <<>>, raw |-> <<>>, at |-> 0, out |-> <<>>]

\* A database without the table, and no session on it.
EmptySink ==
  [dialect |-> "sqlite", tables |-> {}, committed |-> {}, latest |-> {},
   tx |-> <<>>]

\* main() is not running.
NoRun ==
  [pc |-> "idle", run |-> 0, rows |-> <<>>, ops |-> <<>>,
   before |-> [tables |-> {}, rows |-> {}]]

\* ------------------------------ Init -----------------------------------
\* Before the constructor has run.
InitCtor ==
  /\ cstate = "unconstructed"
  /\ ctor = [id |-> NoneV, secret |-> NoneV, env_id |-> NoneV, env_secret |-> NoneV]
  /\ client_id = NoneV
  /\ client_secret = NoneV
  /\ token = NoneV
  /\ token_exp = 0
  /\ now = 0
  /\ pc = "idle"
  /\ owner = 0
  /\ call = NoCall
  /\ pure = NoPure
  /\ sink = EmptySink
  /\ etl = NoRun
  /\ its = [i \in IterIds |-> NoIter]

\* After PetfinderClient(client_id="id", client_secret="id") in an empty
\* environment.
Init ==
  /\ cstate = "ready"
  /\ ctor = [id |-> "id", secret |-> "id", env_id |-> NoneV, env_secret |-> NoneV]
  /\ client_id = "id"
  /\ client_secret = "id"
  /\ token = NoneV
  /\ token_exp = 0
  /\ now = 0
  /\ pc = "idle"
  /\ owner = 0
  /\ call = NoCall
  /\ pure = NoPure
  /\ sink = EmptySink
  /\ etl = NoRun
  /\ its = [i \in IterIds |-> NoIter]

\* ---------------------------- __init__ ---------------------------------
\* Mutant: the check raises only when both credentials are missing.
MissingCredentials_Both(cid, csecret) == ~Truthy(cid) /\ ~Truthy(csecret)

\* The credential check of the constructor: TRUE when it raises.
MissingCredentials(cid, csecret) == ~Truthy(cid) \/ ~Truthy(csecret)

Construct(aid, asecret, eid, esecret) ==
  /\ cstate = "unconstructed"
  /\ ctor' = [id |-> aid, secret |-> asecret, env_id |-> eid, env_secret |-> esecret]
  /\ client_id' = Or(aid, eid)
  /\ client_secret' = Or(asecret, esecret)
  /\ cstate' = IF MissingCredentials(client_id', client_secret')
               THEN "failed" ELSE "ready"
  /\ token' = NoneV
  /\ token_exp' = 0
  /\ UNCHANGED <<etlVars, now, pc, owner, call, its>>

\* ------------------------------ clock ----------------------------------
Tick ==
  /\ now < MaxTicks * Margin
  /\ now' = now + Margin
  /\ UNCHANGED <<etlVars, ctorVars, token, token_exp, pc, owner, call, its>>

\* -------------------------- _ensure_token ------------------------------
\* Mutant: the token is reused until it expires, without the safety margin.
Reusable_NoMargin(tok, exp, t) == Truthy(tok) /\ t < exp

\* The cached token is reused: it is set and more than Margin seconds are left.
Reusable(tok, exp, t) == Truthy(tok) /\ t < exp - Margin

\* Mutant: the cache is cleared before the exchange, so a failed exchange
\* loses the token that was there.
ensure_token_ClearFirst(tok, exp, t, r) ==
  IF Reusable(tok, exp, t)
  THEN [token |-> tok, token_exp |-> exp, posted |-> FALSE, raised |-> FALSE]
  ELSE IF RaisesForStatus(r.status)
       THEN [token |-> NoneV, token_exp |-> 0, posted |-> TRUE, raised |-> TRUE]
       ELSE [token |-> r.access_token,
             token_exp |-> t + Get(r.expires_in, DefaultExpiresIn),
             posted |-> TRUE, raised |-> FALSE]

\* Mutant: the expiry is stored as the lifetime, not as now + lifetime.
ensure_token_RelativeExpiry(tok, exp, t, r) ==
  IF Reusable(tok, exp, t)
  THEN [token |-> tok, token_exp |-> exp, posted |-> FALSE, raised |-> FALSE]
  ELSE IF RaisesForStatus(r.status)
       THEN [token |-> tok, token_exp |-> exp, posted |-> TRUE, raised |-> TRUE]
       ELSE [token |-> r.access_token,
             token_exp |-> Get(r.expires_in, DefaultExpiresIn),
             posted |-> TRUE, raised |-> FALSE]

\* Mutant: a refresh replaces the token and keeps the expiry it finds.
ensure_token_KeepExpiry(tok, exp, t, r) ==
  IF Reusable(tok, exp, t)
  THEN [token |-> tok, token_exp |-> exp, posted |-> FALSE, raised |-> FALSE]
  ELSE IF RaisesForStatus(r.status)
       THEN [token |-> tok, token_exp |-> exp, posted |-> TRUE, raised |-> TRUE]
       ELSE [token |-> r.access_token,
             token_exp |-> IF exp = 0 THEN t + Get(r.expires_in, DefaultExpiresIn)
                           ELSE exp,
             posted |-> TRUE, raised |-> FALSE]

\* _ensure_token with the token cache (tok, exp) at time t, r being the answer
\* the authentication endpoint gives if it is asked.
ensure_token(tok, exp, t, r) ==
  IF Reusable(tok, exp, t)
  THEN [token |-> tok, token_exp |-> exp, posted |-> FALSE, raised |-> FALSE]
  ELSE IF RaisesForStatus(r.status)
       THEN [token |-> tok, token_exp |-> exp, posted |-> TRUE, raised |-> TRUE]
       ELSE [token |-> r.access_token,
             token_exp |-> t + Get(r.expires_in, DefaultExpiresIn),
             posted |-> TRUE, raised |-> FALSE]

\* The exchanges of a call, each with the cache before and after it, the
\* number of GETs the call had sent when it was made and, when the exchange
\* succeeded, the JSON it returned.
Exchanged(c, e, r, tok, exp, t) ==
  IF e.posted
  THEN Append(c.xs, [status |-> r.status, at |-> t, gets |-> Len(c.sts),
                     resp |-> IF e.raised THEN <<>> ELSE <<r>>,
                     before |-> <<tok, exp>>,
                     after |-> <<e.token, e.token_exp>>])
  ELSE c.xs

\* An iterator whose _get call raised: the exception leaves the generator.
Failed(o) ==
  IF o = 0 THEN its ELSE [its EXCEPT ![o].state = "failed"]

\* ------------------------------- _get ----------------------------------
\* Mutant: _headers() builds the header without calling _ensure_token.
BeginGet_NoEnsure(o, r, its1) ==
  /\ UNCHANGED <<token, token_exp>>
  /\ owner' = o
  /\ call' = NewCall(token, token_exp, now)
  /\ pc' = "get1"
  /\ its' = its1

\* _get up to its first GET: _headers() calls _ensure_token.  its1 is the
\* generators' state when the call goes on.
BeginGet(o, r, its1) ==
  LET e == ensure_token(token, token_exp, now, r)
      c == NewCall(token, token_exp, now)
  IN /\ token' = e.token
     /\ token_exp' = e.token_exp
     /\ owner' = o
     /\ call' = [c EXCEPT !.xs = Exchanged(c, e, r, token, token_exp, now),
                          !.outcome = IF e.raised THEN "error" ELSE "running"]
     /\ pc' = IF e.raised THEN "idle" ELSE "get1"
     /\ its' = IF e.raised /\ o # 0
               THEN [its1 EXCEPT ![o].state = "failed"] ELSE its1

\* get_types: one _get call whose result goes back to the caller.
GetTypes(r) ==
  /\ cstate = "ready"
  /\ pc = "idle"
  /\ BeginGet(0, r, its)
  /\ UNCHANGED <<etlVars, ctorVars, now>>

\* The end of a _get call whose last response has the given status and body:
\* raise_for_status, then the JSON body goes back to the caller.
Complete(status, body) ==
  /\ pc' = IF ~RaisesForStatus(status) /\ owner # 0 THEN "returned" ELSE "idle"
  /\ its' = IF owner = 0 THEN its
            ELSE IF RaisesForStatus(status) THEN Failed(owner)
            ELSE [its EXCEPT ![owner].data = <<body>>]

\* Mutant: a 401 is retried without dropping the cached token.
SendGet1_KeepToken(status, body) ==
  /\ pc = "get1"
  /\ LET c == [call EXCEPT !.sts = Append(@, status), !.hdrs = Append(@, token)]
     IN IF status = Unauthorized
        THEN /\ call' = c
             /\ pc' = "headers2"
             /\ UNCHANGED <<token, its>>
        ELSE /\ UNCHANGED token
             /\ call' = [c EXCEPT !.outcome =
                           IF RaisesForStatus(status) THEN "error" ELSE "ok"]
             /\ Complete(status, body)
  /\ UNCHANGED <<etlVars, ctorVars, token_exp, now, owner>>

\* Mutant: every failing status is retried after a refresh, not only 401.
SendGet1_RetryAny(status, body) ==
  /\ pc = "get1"
  /\ LET c == [call EXCEPT !.sts = Append(@, status), !.hdrs = Append(@, token)]
     IN IF RaisesForStatus(status)
        THEN /\ token' = NoneV
             /\ call' = [c EXCEPT !.invals = @ + 1]
             /\ pc' = "headers2"
             /\ UNCHANGED its
        ELSE /\ UNCHANGED token
             /\ call' = [c EXCEPT !.outcome = "ok"]
             /\ Complete(status, body)
  /\ UNCHANGED <<etlVars, ctorVars, token_exp, now, owner>>

\* The answer to the first GET.
SendGet1(status, body) ==
  /\ pc = "get1"
  /\ LET c == [call EXCEPT !.sts = Append(@, status), !.hdrs = Append(@, token)]
     IN IF status = Unauthorized
        THEN /\ token' = NoneV
             /\ call' = [c EXCEPT !.invals = @ + 1]
             /\ pc' = "headers2"
             /\ UNCHANGED its
        ELSE /\ UNCHANGED token
             /\ call' = [c EXCEPT !.outcome =
                           IF RaisesForStatus(status) THEN "error" ELSE "ok"]
             /\ Complete(status, body)
  /\ UNCHANGED <<etlVars, ctorVars, token_exp, now, owner>>

\* After a 401: _headers() again, for the retry.
Headers2(r) ==
  /\ pc = "headers2"
  /\ LET e == ensure_token(token, token_exp, now, r)
     IN /\ token' = e.token
        /\ token_exp' = e.token_exp
        /\ call' = [call EXCEPT !.xs = Exchanged(call, e, r, token, token_exp, now),
                                !.outcome = IF e.raised THEN "error" ELSE "running"]
        /\ pc' = IF e.raised THEN "idle" ELSE "get2"
        /\ its' = IF e.raised THEN Failed(owner) ELSE its
  /\ UNCHANGED <<etlVars, ctorVars, now, owner>>

\* Mutant: a retry that fails drops the token it was sent with.
SendGet2_Invalidate(status, body) ==
  /\ pc = "get2"
  /\ call' = [call EXCEPT !.sts = Append(@, status), !.hdrs = Append(@, token),
                          !.outcome =
                            IF RaisesForStatus(status) THEN "error" ELSE "ok"]
  /\ Complete(status, body)
  /\ token' = IF RaisesForStatus(status) THEN NoneV ELSE token
  /\ UNCHANGED <<etlVars, ctorVars, token_exp, now, owner>>

\* The answer to the retried GET: no second retry.
SendGet2(status, body) ==
  /\ pc = "get2"
  /\ call' = [call EXCEPT !.sts = Append(@, status), !.hdrs = Append(@, token),
                          !.outcome =
                            IF RaisesForStatus(status) THEN "error" ELSE "ok"]
  /\ Complete(status, body)
  /\ UNCHANGED <<etlVars, ctorVars, token, token_exp, now, owner>>

\* The body of a /types response does not matter to the client.
TypesBody == [animals |-> <<>>, pagination |-> <<>>]

\* --------------------------- iter_animals ------------------------------
\* Calling iter_animals(**p) only creates the generator: no code of its body
\* runs before the first next().
IterCreate(i, p) ==
  /\ cstate = "ready"
  /\ pc = "idle"
  /\ its' = [its EXCEPT ![i] = [NoIter EXCEPT !.state = "created", !.params = p]]
  /\ UNCHANGED <<etlVars, ctorVars, token, token_exp, now, pc, owner, call>>

\* Mutant: the caller's limit is dropped and the default page size is sent.
InitialQuery_DefaultLimit(p) ==
  [limit |-> DefaultLimit, page |-> Get(p.page, FirstPage)]

\* q = {"limit": 100, "page": 1}; q.update(params)
InitialQuery(p) ==
  [limit |-> Get(p.limit, DefaultLimit), page |-> Get(p.page, FirstPage)]

\* Mutant: the first record of every page is skipped.
Animals_SkipFirst(data) ==
  IF Len(Get(data.animals, <<>>)) = 0 THEN <<>> ELSE Tail(Get(data.animals, <<>>))

\* data.get("animals", [])
Animals(data) == Get(data.animals, <<>>)

\* pg = data.get("pagination") or {}
EmptyPg == [current_page |-> <<>>, total_pages |-> <<>>]
Pagination(data) == Get(data.pagination, EmptyPg)

\* cur = int(pg.get("current_page", q["page"]))
CurPage(data, q) == Get(Pagination(data).current_page, q.page)

\* Mutant: a missing total_pages is read as "one more page".
TotalPages_OneMore(data, q) ==
  Get(Pagination(data).total_pages, CurPage(data, q) + 1)

\* total = int(pg.get("total_pages", cur))
TotalPages(data, q) == Get(Pagination(data).total_pages, CurPage(data, q))

\* Mutant: the page the server reported is asked for again.
NextPage_Same(data, q) == CurPage(data, q)

\* Mutant: the next page is counted from the page asked for, not from the
\* page the server reported.
NextPage_FromRequest(data, q) == q.page + 1

\* The page asked for after a response that is not the last one.
NextPage(data, q) == CurPage(data, q) + 1

\* data = self._get("/animals", params=q), by generator i in state it1; with h
\* the request is recorded, and at most MaxRequests are.
Request(i, it1, r, h) ==
  /\ h => Len(it1.reqs) < MaxRequests
  /\ BeginGet(i, r, [its EXCEPT ![i] =
                       [it1 EXCEPT !.state = "running",
                                   !.reqs = IF h THEN Append(@, it1.q) ELSE @]])

\* The end of the for loop over a page: stop, or ask for the next page.
Paginate(i, it1, r, h) ==
  LET data == it1.data[1]
  IN IF CurPage(data, it1.q) >= TotalPages(data, it1.q)
     THEN /\ its' = [its EXCEPT ![i] = [it1 EXCEPT !.state = "done"]]
          /\ pc' = "idle"
          /\ UNCHANGED <<token, token_exp, owner, call>>
     ELSE Request(i, [it1 EXCEPT !.q.page = NextPage(data, it1.q)], r, h)

\* Mutant: after the first record of a page the next page is asked for,
\* whatever is left of the page.
IterNext_SkipRest(i, r, h) ==
  /\ cstate = "ready"
  /\ pc = "idle"
  /\ LET it == its[i]
     IN \/ /\ it.state = "created"
           /\ Request(i, [it EXCEPT !.q = InitialQuery(it.params)], r, h)
        \/ /\ it.state = "suspended"
           /\ it.idx < 1
           /\ its' = [its EXCEPT ![i] =
                        [it EXCEPT !.idx = @ + 1,
                                   !.yielded = IF h THEN Append(@, Animals(it.data[1])[it.idx + 1])
                                               ELSE @]]
           /\ UNCHANGED <<token, token_exp, pc, owner, call>>
        \/ /\ it.state = "suspended"
           /\ it.idx >= 1
           /\ Paginate(i, it, r, h)
  /\ UNCHANGED <<etlVars, ctorVars, now>>

\* Mutant: the page cursor belongs to the client, so that an iteration
\* starts at the page another iteration has reached.
IterNext_SharedCursor(i, r, h) ==
  /\ cstate = "ready"
  /\ pc = "idle"
  /\ LET it == its[i]
         started == {j \in DOMAIN its \ {i} : Len(its[j].reqs) > 0}
         q0 == IF started = {} THEN InitialQuery(it.params)
               ELSE its[CHOOSE j \in started : TRUE].q
     IN \/ /\ it.state = "created"
           /\ Request(i, [it EXCEPT !.q = q0], r, h)
        \/ /\ it.state = "suspended"
           /\ it.idx < Len(Animals(it.data[1]))
           /\ its' = [its EXCEPT ![i] =
                        [it EXCEPT !.idx = @ + 1,
                                   !.yielded = IF h THEN Append(@, Animals(it.data[1])[it.idx + 1])
                                               ELSE @]]
           /\ UNCHANGED <<token, token_exp, pc, owner, call>>
        \/ /\ it.state = "suspended"
           /\ it.idx >= Len(Animals(it.data[1]))
           /\ Paginate(i, it, r, h)
  /\ UNCHANGED <<etlVars, ctorVars, now>>

\* next() on generator i: runs the body up to the next yield, to its end, or
\* to the next GET.
IterNext(i, r, h) ==
  /\ cstate = "ready"
  /\ pc = "idle"
  /\ LET it == its[i]
     IN \/ /\ it.state = "created"
           /\ Request(i, [it EXCEPT !.q = InitialQuery(it.params)], r, h)
        \/ /\ it.state = "suspended"
           /\ it.idx < Len(Animals(it.data[1]))
           /\ its' = [its EXCEPT ![i] =
                        [it EXCEPT !.idx = @ + 1,
                                   !.yielded = IF h THEN Append(@, Animals(it.data[1])[it.idx + 1])
                                               ELSE @]]
           /\ UNCHANGED <<token, token_exp, pc, owner, call>>
        \/ /\ it.state = "suspended"
           /\ it.idx >= Len(Animals(it.data[1]))
           /\ Paginate(i, it, r, h)
  /\ UNCHANGED <<etlVars, ctorVars, now>>

\* _get has returned a page to generator i: the for loop starts.
IterResume(i, r, h) ==
  /\ pc = "returned"
  /\ owner = i
  /\ LET data == its[i].data[1]
         it1 == [its[i] EXCEPT
                   !.resps = IF h THEN Append(@, data) ELSE @,
                   !.echoed = @ /\ CurPage(data, its[i].q) >= its[i].q.page]
     IN IF Len(Animals(data)) > 0
        THEN /\ its' = [its EXCEPT ![i] =
                          [it1 EXCEPT !.state = "suspended", !.idx = 1,
                                      !.yielded = IF h THEN Append(@, Animals(data)[1])
                                                  ELSE @]]
             /\ pc' = "idle"
             /\ UNCHANGED <<token, token_exp, owner, call>>
        ELSE Paginate(i, [it1 EXCEPT !.idx = 0], r, h)
  /\ UNCHANGED <<etlVars, ctorVars, now>>

\* ------------------------ parse_petfinder_ts ---------------------------
\* A string is the sequence of its characters, so that strip(), the regular
\* expression and the ISO parser work on it as the code does.  The argument
\* of parse_petfinder_ts is <<>> for None and <<s>> for the string s.
TsDates ==
  {<<"2", "0", "2", "5", "-", "0", "8", "-", "1", "6">>,
   <<"2", "0", "2", "4", "-", "0", "2", "-", "2", "9">>,
   <<"2", "0", "2", "5", "-", "0", "2", "-", "3", "0">>,
   <<"1", "9", "7", "0", "-", "0", "1", "-", "0", "1">>}
TsClocks ==
  {<<>>,
   <<"T", "1", "2", ":", "2", "8", ":", "0", "2">>,
   <<" ", "1", "2", ":", "2", "8", ":", "0", "2">>,
   <<"T", "2", "3", ":", "5", "9">>,
   <<"T", "2", "4", ":", "0", "0", ":", "0", "0">>}
TsOffsets ==
  {<<>>,
   <<"+", "0", "0", "0", "0">>, <<"+", "0", "0", ":", "0", "0">>,
   <<"-", "0", "5", "3", "0">>, <<"-", "0", "5", ":", "3", "0">>,
   <<"+", "0", "5", "9", "9">>, <<"+", "0", "5", ":", "9", "9">>,
   <<"+", "2", "4", "0", "0">>}
TsPads == {<<>>, <<" ">>}
TsExample == <<"2", "0", "2", "5", "-", "0", "8", "-", "1", "6", "T", "1", "2", ":", "2", "8", ":", "0", "2", "+", "0", "0", "0", "0">>
TsStrings ==
  {pre \o d \o c \o o \o post :
     pre \in TsPads, d \in TsDates, c \in TsClocks, o \in TsOffsets, post \in TsPads}
  \cup {<<>>, <<" ">>, <<"s", "o", "o", "n">>}
TsInputs == {<<>>} \cup {<<s>> : s \in TsStrings}

\* The UTC offset, in seconds, of the zone of the machine the run is on.
LocalOffsets == {0, -18000}

Whitespace == {" ", "\t", "\n"}
DigitChars == <<"0", "1", "2", "3", "4", "5", "6", "7", "8", "9">>
IsDigit(c) == \E k \in 1..10 : DigitChars[k] = c
DigitVal(c) == (CHOOSE k \in 1..10 : DigitChars[k] = c) - 1
AllDigits(s, i, j) == \A k \in i..j : IsDigit(s[k])
Num2(s, i) == DigitVal(s[i]) * 10 + DigitVal(s[i + 1])
Num4(s, i) == Num2(s, i) * 100 + Num2(s, i + 2)

\* str.strip(): leading and trailing whitespace is dropped.
strip(s) ==
  LET inner == {k \in 1..Len(s) : s[k] \notin Whitespace}
  IN IF inner = {} THEN <<>>
     ELSE SubSeq(s, CHOOSE k \in inner : \A j \in inner : k <= j,
                    CHOOSE k \in inner : \A j \in inner : k >= j)

\* re.sub(r"([+-]\d{2})(\d{2})$", r"\1:\2", s): a sign and four digits at
\* the end of the string get a colon between the hours and the minutes.
NormalizeOffset(s) ==
  LET n == Len(s)
  IN IF n >= 5 /\ s[n - 4] \in {"+", "-"} /\ AllDigits(s, n - 3, n)
     THEN SubSeq(s, 1, n - 2) \o <<":">> \o SubSeq(s, n - 1, n)
     ELSE s

\* What the parser gives: None, a ValueError, or a datetime, which is its
\* wall-clock reading in seconds since 1970-01-01T00:00:00 and its UTC
\* offset in seconds (none for a naive datetime).
NoneDt == [kind |-> "none", wall |-> 0, off |-> <<>>]
ValueError == [kind |-> "error", wall |-> 0, off |-> <<>>]
DateTime(wall, off) == [kind |-> "datetime", wall |-> wall, off |-> off]

IsLeap(y) == (y % 4 = 0 /\ y % 100 # 0) \/ y % 400 = 0
DaysInMonth(y, m) ==
  IF m = 2 THEN (IF IsLeap(y) THEN 29 ELSE 28)
  ELSE IF m \in {4, 6, 9, 11} THEN 30 ELSE 31

\* Days from 1970-01-01 to the date y-m-d of the proleptic Gregorian calendar.
DaysFromCivil(y, m, d) ==
  LET yy == IF m <= 2 THEN y - 1 ELSE y
      era == yy \div 400
      yoe == yy - era * 400
      mp == IF m > 2 THEN m - 3 ELSE m + 9
      doy == (153 * mp + 2) \div 5 + d - 1
      doe == yoe * 365 + yoe \div 4 - yoe \div 100 + doy
  IN era * 146097 + doe - 719468

\* HH, HH:MM or HH:MM:SS; -1 when the text is not one of these.  With
\* ranged the fields are a time of day, without they are a UTC offset,
\* whose fields datetime does not range-check one by one.
Clock(c, ranged) ==
  LET n == Len(c)
      shape == /\ n \in {2, 5, 8}
               /\ AllDigits(c, 1, 2)
               /\ n >= 5 => (c[3] = ":" /\ AllDigits(c, 4, 5))
               /\ n >= 8 => (c[6] = ":" /\ AllDigits(c, 7, 8))
      hh == Num2(c, 1)
      mm == IF n >= 5 THEN Num2(c, 4) ELSE 0
      ss == IF n >= 8 THEN Num2(c, 7) ELSE 0
  IN IF ~shape THEN -1
     ELSE IF ranged /\ (hh > 23 \/ mm > 59 \/ ss > 59) THEN -1
     ELSE hh * 3600 + mm * 60 + ss

\* datetime.fromisoformat on YYYY-MM-DD[*HH[:MM[:SS]][(+|-)HH:MM[:SS]]],
\* where * is any one character.
fromisoformat(s) ==
  LET n == Len(s)
      dateShape == /\ n >= 10
                   /\ AllDigits(s, 1, 4) /\ s[5] = "-"
                   /\ AllDigits(s, 6, 7) /\ s[8] = "-"
                   /\ AllDigits(s, 9, 10)
      y == Num4(s, 1)
      m == Num2(s, 6)
      d == Num2(s, 9)
      dateOk == y >= 1 /\ m \in 1..12 /\ d >= 1 /\ d <= DaysInMonth(y, m)
      midnight == DaysFromCivil(y, m, d) * 86400
      tstr == SubSeq(s, 12, n)
      signs == {k \in 1..Len(tstr) : tstr[k] \in {"+", "-"}}
      p == IF signs = {} THEN Len(tstr) + 1
           ELSE CHOOSE k \in signs : \A j \in signs : k <= j
      tod == Clock(SubSeq(tstr, 1, p - 1), TRUE)
      mag == Clock(SubSeq(tstr, p + 1, Len(tstr)), FALSE)
  IN IF ~dateShape THEN ValueError
     ELSE IF ~dateOk THEN ValueError
     ELSE IF n = 10 THEN DateTime(midnight, <<>>)
     ELSE IF n = 11 \/ tod < 0 THEN ValueError
     ELSE IF signs = {} THEN DateTime(midnight + tod, <<>>)
     ELSE IF mag < 0 \/ mag >= 86400 THEN ValueError
     ELSE DateTime(midnight + tod, <<IF tstr[p] = "-" THEN 0 - mag ELSE mag>>)

\* datetime.astimezone(timezone.utc): the same instant read in UTC; a naive
\* datetime is taken to be in the zone of the machine.
astimezone_utc(dtv, local) ==
  DateTime(dtv.wall - Get(dtv.off, local), <<0>>)

\* Mutant: the parsed datetime is returned in the offset it was written in.
parse_petfinder_ts_AsWritten(ts, local) ==
  IF Len(ts) = 0 \/ Len(ts[1]) = 0 THEN NoneDt
  ELSE fromisoformat(NormalizeOffset(strip(ts[1])))

parse_petfinder_ts(ts, local) ==
  IF Len(ts) = 0 \/ Len(ts[1]) = 0 THEN NoneDt
  ELSE LET dtv == fromisoformat(NormalizeOffset(strip(ts[1])))
       IN IF dtv.kind = "error" THEN dtv ELSE astimezone_utc(dtv, local)

\* ------------------------- build_upsert_sql ----------------------------
\* A statement is the sequence of its SQL tokens: layout and comments, which
\* mean nothing to the database, are not part of it.
Dialects == {"postgresql", "sqlite", "mysql", "PostgreSQL", "postgres"}

\* The statement for PostgreSQL, as its sequence of SQL tokens.
PostgresText ==
  <<"INSERT", "INTO", "tmp_animals_sample", "(", "id", ",", "name", ",",
    "type", ",", "age", ",", "gender", ",", "status", ",", "org_id", ",",
    "city", ",", "state", ",", "published_at", ",", "status_changed_at",
    ",", "fetched_at", ")", "VALUES", "(", ":id", ",", ":name", ",",
    ":type", ",", ":age", ",", ":gender", ",", ":status", ",", ":org_id",
    ",", ":city", ",", ":state", ",", "(", ":published_at", ")", "::",
    "timestamptz", ",", "(", ":status_changed_at", ")", "::",
    "timestamptz", ",", "(", ":fetched_at", ")", "::", "timestamptz", ")",
    "ON", "CONFLICT", "(", "id", ")", "DO", "UPDATE", "SET", "name", "=",
    "EXCLUDED", ".", "name", ",", "type", "=", "EXCLUDED", ".", "type",
    ",", "age", "=", "EXCLUDED", ".", "age", ",", "gender", "=",
    "EXCLUDED", ".", "gender", ",", "status", "=", "EXCLUDED", ".",
    "status", ",", "org_id", "=", "EXCLUDED", ".", "org_id", ",", "city",
    "=", "EXCLUDED", ".", "city", ",", "state", "=", "EXCLUDED", ".",
    "state", ",", "published_at", "=", "EXCLUDED", ".", "published_at",
    ",", "status_changed_at", "=", "EXCLUDED", ".", "status_changed_at",
    ",", "fetched_at", "=", "EXCLUDED", ".", "fetched_at">>

\* The statement for SQLite and every other dialect, as its SQL tokens.
PortableText ==
  <<"INSERT", "INTO", "tmp_animals_sample", "(", "id", ",", "name", ",",
    "type", ",", "age", ",", "gender", ",", "status", ",", "org_id", ",",
    "city", ",", "state", ",", "published_at", ",", "status_changed_at",
    ",", "fetched_at", ")", "VALUES", "(", ":id", ",", ":name", ",",
    ":type", ",", ":age", ",", ":gender", ",", ":status", ",", ":org_id",
    ",", ":city", ",", ":state", ",", ":published_at", ",",
    ":status_changed_at", ",", ":fetched_at", ")", "ON", "CONFLICT", "(",
    "id", ")", "DO", "UPDATE", "SET", "name", "=", "excluded", ".", "name",
    ",", "type", "=", "excluded", ".", "type", ",", "age", "=", "excluded",
    ".", "age", ",", "gender", "=", "excluded", ".", "gender", ",",
    "status", "=", "excluded", ".", "status", ",", "org_id", "=",
    "excluded", ".", "org_id", ",", "city", "=", "excluded", ".", "city",
    ",", "state", "=", "excluded", ".", "state", ",", "published_at", "=",
    "excluded", ".", "published_at", ",", "status_changed_at", "=",
    "excluded", ".", "status_changed_at", ",", "fetched_at", "=",
    "excluded", ".", "fetched_at">>

\* Mutant: every dialect gets the statement without casts.
build_upsert_sql_Portable(dialect_name) == PortableText

\* Mutant: the name of the dialect is matched loosely.
build_upsert_sql_Loose(dialect_name) ==
  IF dialect_name \in {"postgresql", "PostgreSQL", "postgres"}
  THEN PostgresText ELSE PortableText

build_upsert_sql(dialect_name) ==
  IF dialect_name = "postgresql" THEN PostgresText ELSE PortableText

\* ------------------------- pure applications ---------------------------
\* parse_petfinder_ts(ts) on a machine whose zone is local seconds from UTC.
ApplyParse(ts, local) ==
  /\ pure.fn = "none"
  /\ pure' = [NoPure EXCEPT !.fn = "parse_petfinder_ts", !.ts = ts,
                            !.local = local,
                            !.dt = parse_petfinder_ts(ts, local)]
  /\ UNCHANGED <<ctorVars, token, token_exp, now, pc, owner, call, its,
                 sink, etl>>

\* build_upsert_sql(dialect_name), any number of times.
ApplyBuild(dialect_name) ==
  /\ pure.fn \in {"none", "build_upsert_sql"}
  /\ pure' = [NoPure EXCEPT !.fn = "build_upsert_sql",
                            !.dialect = dialect_name,
                            !.sql = build_upsert_sql(dialect_name)]
  /\ UNCHANGED <<ctorVars, token, token_exp, now, pc, owner, call, its,
                 sink, etl>>

\* --------------------------- specifications ----------------------------
Next ==
  \/ Tick
  \/ \E r \in TokResponses : GetTypes(r)
  \/ \E s \in Statuses : SendGet1(s, TypesBody)
  \/ \E r \in TokResponses : Headers2(r)
  \/ \E s \in Statuses : SendGet2(s, TypesBody)

Spec == Init /\ [][Next]_vars

\* The constructor, followed by get_types calls at one instant against an
\* authentication endpoint that always answers the same.
CtorTokResponses == {[status |-> 200, access_token |-> "A", expires_in |-> <<>>]}

NextCtor ==
  \/ \E aid \in CredVals, asecret \in CredVals, eid \in EnvVals, esecret \in EnvVals :
       Construct(aid, asecret, eid, esecret)
  \/ \E r \in CtorTokResponses : GetTypes(r)
  \/ \E s \in Statuses : SendGet1(s, TypesBody)
  \/ \E r \in CtorTokResponses : Headers2(r)
  \/ \E s \in Statuses : SendGet2(s, TypesBody)

SpecCtor == InitCtor /\ [][NextCtor]_vars

\* Iterations over /animals at one instant, every request and yield recorded.
IterTokResponses == [status : TokStatuses, access_token : {"A"}, expires_in : {<<>>}]

NextIter ==
  \/ \E i \in IterIds, p \in ParamSets : IterCreate(i, p)
  \/ \E i \in IterIds, r \in IterTokResponses : IterNext(i, r, TRUE)
  \/ \E s \in Statuses, b \in PageBodies : SendGet1(s, b)
  \/ \E r \in IterTokResponses : Headers2(r)
  \/ \E s \in Statuses, b \in PageBodies : SendGet2(s, b)
  \/ \E i \in IterIds, r \in IterTokResponses : IterResume(i, r, TRUE)

SpecIter == Init /\ [][NextIter]_vars

\* Two iterations of one client, consumed in any interleaving and created
\* anew at any time, every request recorded. The server answers a GET with
\* 200 or 500: the retry after a 401 is the business of _get and is left out.
TwoIds == {1, 2}
TwoParams == {p \in ParamSets : p.limit = <<>>}
TwoAnimalLists == {<< <<>> >>, << <<1, 2>> >>}
TwoPaginations ==
  {<<>>} \cup {<<[current_page |-> <<c>>, total_pages |-> <<2>>]>> : c \in {1, 2}}
TwoPageBodies == [animals : TwoAnimalLists, pagination : TwoPaginations]
TwoStatuses == {200, 500}

InitTwo ==
  /\ cstate = "ready"
  /\ ctor = [id |-> "id", secret |-> "id", env_id |-> NoneV, env_secret |-> NoneV]
  /\ client_id = "id"
  /\ client_secret = "id"
  /\ token = NoneV
  /\ token_exp = 0
  /\ now = 0
  /\ pc = "idle"
  /\ owner = 0
  /\ call = NoCall
  /\ pure = NoPure
  /\ sink = EmptySink
  /\ etl = NoRun
  /\ its = [i \in TwoIds |-> NoIter]

NextTwo ==
  \/ \E i \in TwoIds, p \in TwoParams : IterCreate(i, p)
  \/ \E i \in TwoIds, r \in IterTokResponses : IterNext(i, r, TRUE)
  \/ \E s \in TwoStatuses, b \in TwoPageBodies : SendGet1(s, b)
  \/ \E i \in TwoIds, r \in IterTokResponses : IterResume(i, r, TRUE)

SpecTwo == InitTwo /\ [][NextTwo]_vars

\* One iteration whose consumer keeps calling next() and whose requests are
\* all answered; nothing is recorded, so that an iteration that goes round
\* and round is a cycle of states.
InitLive ==
  /\ cstate = "ready"
  /\ ctor = [id |-> "id", secret |-> "id", env_id |-> NoneV, env_secret |-> NoneV]
  /\ client_id = "id"
  /\ client_secret = "id"
  /\ token = NoneV
  /\ token_exp = 0
  /\ now = 0
  /\ pc = "idle"
  /\ owner = 0
  /\ call = NoCall
  /\ pure = NoPure
  /\ sink = EmptySink
  /\ etl = NoRun
  /\ \E p \in ParamSets :
       its = [i \in IterIds |-> [NoIter EXCEPT !.state = "created", !.params = p]]

NextLive ==
  \/ \E i \in IterIds, r \in IterTokResponses : IterNext(i, r, FALSE)
  \/ \E s \in Statuses, b \in PageBodies : SendGet1(s, b)
  \/ \E r \in IterTokResponses : Headers2(r)
  \/ \E s \in Statuses, b \in PageBodies : SendGet2(s, b)
  \/ \E i \in IterIds, r \in IterTokResponses : IterResume(i, r, FALSE)

SpecLive == InitLive /\ [][NextLive]_vars /\ WF_vars(NextLive)

\* The pure functions of etl/sample_query.py: one timestamp parsed, or the
\* statement built for one dialect after another.
NextPure ==
  \/ \E ts \in TsInputs, local \in LocalOffsets : ApplyParse(ts, local)
  \/ \E d \in Dialects : ApplyBuild(d)

SpecPure == Init /\ [][NextPure]_vars

\* ------------------------ properties of _get --------------------------
\* A _get call has been made and is over.
CallOver == call.outcome \in {"ok", "error"}

\* The token exchanges of the call made before its first GET, and after it.
XsBefore == {k \in 1..Len(call.xs) : call.xs[k].gets = 0}
XsAfter == {k \in 1..Len(call.xs) : call.xs[k].gets > 0}

\* When the call was made, a (non-empty) token was cached with more than
\* Margin seconds left / the cached expiry was within Margin seconds.
StartedFresh ==
  /\ call.start.token \notin {NoneV, ""}
  /\ call.start.now < call.start.token_exp - 60
StartedStale == call.start.now >= call.start.token_exp - 60

\* The first GET of the call was answered 401.
First401 == Len(call.sts) >= 1 /\ call.sts[1] = 401

\* C1 as stated: a call made while a token is cached and now < expiry - 60
\* never triggers a token exchange, and a call made when now >= expiry - 60
\* triggers exactly one, whatever the server answers.
C1_AsStated ==
  CallOver =>
    /\ StartedFresh => Len(call.xs) = 0
    /\ StartedStale => Len(call.xs) = 1

\* C1 (amended): a call made while a non-empty token is cached and
\* now < expiry - 60 makes no token exchange before its first GET, a call made
\* when now >= expiry - 60 makes exactly one before its first GET, and in both
\* cases one more exchange is made exactly when that GET is answered 401.
C1_Exchanges ==
  call.outcome # "none" =>
    /\ StartedFresh => Cardinality(XsBefore) = 0
    /\ StartedStale => Cardinality(XsBefore) = 1
    /\ Cardinality(XsAfter) = (IF First401 /\ pc # "headers2" THEN 1 ELSE 0)

C1_Witness ==
  /\ CallOver /\ call.outcome = "ok"
  /\ StartedFresh /\ call.start.now > 0
  /\ Len(call.xs) = 0 /\ Len(call.sts) = 1

\* C2 as stated: after a 401 on the first attempt the client invalidates the
\* token once, makes one exchange and re-issues the GET exactly once with the
\* new token, whatever happens; a failing retry is an error.
C2_AsStated ==
  (CallOver /\ First401) =>
    /\ call.invals = 1
    /\ Cardinality(XsAfter) = 1
    /\ Len(call.sts) = 2
    /\ call.hdrs[2] = call.xs[Len(call.xs)].after[1]
    /\ (call.sts[2] >= 400 => call.outcome = "error")

\* C2 (amended): after a 401 on the first attempt the client invalidates the
\* token exactly once and makes exactly one new exchange; when that exchange
\* succeeds it re-issues the GET exactly once with the new token and the
\* outcome of the call is the outcome of that retry; when the exchange fails
\* the call fails without a second GET.  No call sends more than two GETs,
\* and no call that did not get a 401 first invalidates the token.
C2_SingleRetry ==
  /\ Len(call.sts) <= 2
  /\ call.invals = (IF First401 THEN 1 ELSE 0)
  /\ (CallOver /\ First401) =>
       /\ Cardinality(XsAfter) = 1
       /\ LET x == call.xs[Len(call.xs)]
          IN IF x.status >= 400
             THEN Len(call.sts) = 1 /\ call.outcome = "error"
             ELSE /\ Len(call.sts) = 2
                  /\ call.hdrs[2] = x.after[1]
                  /\ call.outcome = (IF call.sts[2] >= 400 THEN "error" ELSE "ok")

C2_Witness ==
  /\ CallOver /\ First401
  /\ Len(call.sts) = 2 /\ call.sts[2] = 401
  /\ call.hdrs[1] = "A" /\ call.hdrs[2] = "B"
  /\ call.outcome = "error"

\* The token cache as the call left it after its last exchange (or found it).
CacheAfterHeaders ==
  IF Len(call.xs) = 0
  THEN <<call.start.token, call.start.token_exp>>
  ELSE call.xs[Len(call.xs)].after

\* C3: when the first GET of a call is answered with a failing status other
\* than 401, the call is over with an error after that one GET: no retry, no
\* invalidation of the cached token, no further token exchange.
C3_NoRetryOnOtherStatus ==
  (Len(call.sts) >= 1 /\ call.sts[1] >= 400 /\ call.sts[1] # 401) =>
    /\ call.outcome = "error"
    /\ pc = "idle"
    /\ Len(call.sts) = 1
    /\ call.invals = 0
    /\ XsAfter = {}
    /\ <<token, token_exp>> = CacheAfterHeaders

C3_Witness ==
  /\ Len(call.sts) = 1 /\ call.sts[1] = 500
  /\ call.outcome = "error"
  /\ token = "A" /\ Len(call.xs) = 0

\* C4: a failing status on a token exchange ends the call with an error: the
\* exchange is the call's last one (it is not retried), no GET is sent after
\* it, and the token and expiry are as they were right before it.
C4_ExchangeFailureFatal ==
  \A k \in 1..Len(call.xs) :
    /\ \A j \in 1..(k - 1) : call.xs[j].gets < call.xs[k].gets
    /\ call.xs[k].status >= 400 =>
         /\ k = Len(call.xs)
         /\ call.outcome = "error"
         /\ pc = "idle"
         /\ Len(call.sts) = call.xs[k].gets
         /\ call.xs[k].after = call.xs[k].before
         /\ <<token, token_exp>> = call.xs[k].before

C4_Witness ==
  /\ Len(call.xs) = 1 /\ call.xs[1].status = 401
  /\ call.xs[1].before[1] = "A" /\ token = "A"
  /\ call.outcome = "error" /\ Len(call.sts) = 0

\* ------------------- properties of the token cache --------------------
\* The call ended with a retry that failed.
FailedRetry(c) == c.outcome = "error" /\ Len(c.sts) = 2

\* The step is the answer to a retry, and the answer is a failure.
RetryFails == pc = "get2" /\ FailedRetry(call')

\* The step starts a new call.
CallBegins == pc = "idle" /\ call' # call

\* C23: the step in which the retry after a 401 fails, with a second 401 or
\* with any other failing status, leaves in the cache the token and the
\* expiry that the exchange made for the retry returned; and when the next
\* call starts while that token is not empty and now < expiry - 60, it makes
\* no token exchange and goes on to its GET with the cache unchanged.
C23_FailedRetryKeepsToken ==
  [][/\ RetryFails =>
          /\ <<token', token_exp'>> = <<token, token_exp>>
          /\ <<token', token_exp'>> = call.xs[Len(call.xs)].after
          /\ call'.invals = 1
     /\ (CallBegins /\ FailedRetry(call)) =>
          /\ <<token, token_exp>> = call.xs[Len(call.xs)].after
          /\ (token \notin {"<None>", ""} /\ now < token_exp - 60) =>
               /\ Len(call'.xs) = 0
               /\ pc' = "get1"
               /\ <<token', token_exp'>> = <<token, token_exp>>]_vars

\* A retry was answered 500; the token obtained for it is still cached, with
\* its expiry, 60 seconds on and well within its validity.
C23_Witness ==
  /\ FailedRetry(call)
  /\ call.sts = <<401, 500>>
  /\ call.xs[Len(call.xs)].after = <<"B", 3600>>
  /\ token = "B" /\ token_exp = 3600
  /\ now = 60

\* The exchanges of the call made for its n-th GET.
XsFor(n) == {k \in 1..Len(call.xs) : call.xs[k].gets = n - 1}

\* C11: every GET is sent after _ensure_token has succeeded for that attempt
\* and carries the token that is in the cache at that moment: the token the
\* exchange made for the attempt returned or, when the attempt made none, the
\* token the call found in the cache; no GET is sent, or about to be sent,
\* while the cache holds no token (None).
C11_BearerIsCachedToken ==
  /\ pc \in {"get1", "get2"} => token # "<None>"
  /\ \A n \in 1..Len(call.sts) :
       /\ call.hdrs[n] # "<None>"
       /\ \A k \in XsFor(n) :
            /\ call.xs[k].status < 400
            /\ call.hdrs[n] = call.xs[k].resp[1].access_token
       /\ XsFor(n) = {} => n = 1 /\ call.hdrs[n] = call.start.token
  /\ \A k \in 1..Len(call.xs) :
       call.xs[k].status >= 400 => Len(call.sts) = call.xs[k].gets

C11_Witness ==
  /\ Len(call.sts) = 2
  /\ call.hdrs = <<"A", "B">>
  /\ call.start.token = "A"
  /\ Len(call.xs) = 1 /\ call.xs[1].gets = 1
  /\ call.outcome = "ok"

\* C19: _ensure_token makes a token exchange if and only if no (non-empty)
\* token is cached or now >= expiry - 60; it then makes exactly one, and a
\* successful one stores the returned access token with expiry = time of the
\* exchange + expires_in, 3600 when expires_in is missing; when it makes none
\* the cached token and expiry are unchanged.
C19_EnsureToken ==
  call.outcome # "none" =>
    /\ XsFor(1) # {} <=>
         \/ call.start.token \in {"<None>", ""}
         \/ call.start.now >= call.start.token_exp - 60
    /\ (Len(call.sts) >= 1 /\ pc # "headers2") =>
         (XsFor(2) # {} <=> call.sts[1] = 401)
    /\ \A n \in 1..2 : Cardinality(XsFor(n)) <= 1
    /\ \A k \in 1..Len(call.xs) :
         LET x == call.xs[k]
         IN /\ x.before[1] \in {"<None>", ""} \/ x.at >= x.before[2] - 60
            /\ x.status < 400 =>
                 x.after = <<x.resp[1].access_token,
                             x.at + (IF Len(x.resp[1].expires_in) = 0 THEN 3600
                                     ELSE x.resp[1].expires_in[1])>>
            /\ x.status >= 400 => x.after = x.before
    /\ (XsFor(1) = {} /\ Len(call.sts) = 0) =>
         <<token, token_exp>> = <<call.start.token, call.start.token_exp>>

C19_Witness ==
  /\ Len(call.xs) = 1
  /\ call.xs[1].at = 60
  /\ call.xs[1].before = <<"A", 60>>
  /\ Len(call.xs[1].resp[1].expires_in) = 0
  /\ token = "B" /\ token_exp = 3660

\* The step is a token exchange that succeeds and leaves in the cache the
\* pair made of its access token and of its time + expires_in.
WholesaleReplace ==
  /\ Len(call'.xs) >= 1
  /\ call'.xs # call.xs
  /\ LET x == call'.xs[Len(call'.xs)]
     IN /\ x.status < 400
        /\ token' = x.resp[1].access_token
        /\ token_exp' = x.at + (IF Len(x.resp[1].expires_in) = 0 THEN 3600
                                ELSE x.resp[1].expires_in[1])

\* C20 as stated: the token and its expiry only ever change together, to the
\* pair of one single exchange response.
C20_AsStated ==
  [][(token' # token \/ token_exp' # token_exp) => WholesaleReplace]_vars

\* C20 (amended): the token and its expiry only change in two ways: a
\* successful exchange replaces both by the pair of its response, and the
\* invalidation after a 401 sets the token to None and keeps the expiry; so a
\* token is never paired with the expiry of another exchange, but a dropped
\* token leaves its expiry behind.
C20_ReplacedOrInvalidated ==
  [][(token' # token \/ token_exp' # token_exp) =>
       \/ WholesaleReplace
       \/ /\ token' = "<None>" /\ token_exp' = token_exp
          /\ call'.invals = call.invals + 1]_vars

C20_Witness ==
  /\ token = "<None>" /\ token_exp = 3600
  /\ call.invals = 1
  /\ call.outcome = "error"
  /\ Len(call.xs) = 1 /\ call.xs[1].status = 401

\* ---------------------- properties of __init__ ------------------------
\* The credential the constructor ends up with: the argument, or the
\* environment's value when the argument is None or empty.
Effective(arg, env) == IF arg \in {NoneV, ""} THEN env ELSE arg

\* C5: the constructor fails exactly when the client id or the client secret,
\* argument or environment, is absent or empty; a client whose construction
\* failed never makes a token exchange or any other request.
C5_MissingCredentials ==
  cstate # "unconstructed" =>
    /\ cstate = "failed" <=>
         \/ Effective(ctor.id, ctor.env_id) \in {NoneV, ""}
         \/ Effective(ctor.secret, ctor.env_secret) \in {NoneV, ""}
    /\ cstate = "failed" =>
         /\ call = NoCall /\ pc = "idle" /\ token = NoneV
         /\ \A i \in IterIds : its[i] = NoIter

C5_Witness ==
  /\ cstate = "failed"
  /\ ctor.id = "id" /\ ctor.env_id = "env"
  /\ ctor.secret = "" /\ ctor.env_secret = NoneV


\* -------------------- properties of iter_animals ----------------------
\* The records of the first n responses of an iteration, in order.
RECURSIVE Records(_, _)
Records(resps, n) ==
  IF n = 0 THEN <<>>
  ELSE Records(resps, n - 1) \o (IF Len(resps[n].animals) = 0 THEN <<>>
                                  ELSE resps[n].animals[1])

\* The k-th response of iteration it carries pagination metadata.
HasPagination(it, k) == Len(it.resps[k].pagination) > 0

\* The current_page and total_pages of the k-th response of iteration it; a
\* missing current_page is the page that was asked for, a missing total_pages
\* is the current page.
Reported(it, k) ==
  LET pg == it.resps[k].pagination
      cur == IF Len(pg) = 0 THEN it.reqs[k].page
             ELSE IF Len(pg[1].current_page) = 0 THEN it.reqs[k].page
             ELSE pg[1].current_page[1]
      total == IF Len(pg) = 0 THEN cur
               ELSE IF Len(pg[1].total_pages) = 0 THEN cur
               ELSE pg[1].total_pages[1]
  IN [current_page |-> cur, total_pages |-> total]

\* The k-th response is a last page: current_page >= total_pages.
LastPage(it, k) == Reported(it, k).current_page >= Reported(it, k).total_pages

\* The k-th response reports the page that was asked for (or no page).
EchoesRequest(it, k) == Reported(it, k).current_page = it.reqs[k].page

\* What the iteration has yielded is the records of its pages in the order
\* the pages were fetched, each page in response order, up to the record
\* the consumer has reached.
YieldsInOrder(it) ==
  LET n == Len(it.resps)
  IN it.yielded =
       IF it.state = "suspended"
       THEN Records(it.resps, n - 1) \o SubSeq(it.resps[n].animals[1], 1, it.idx)
       ELSE Records(it.resps, n)

\* The iteration stops asking exactly after the first last page.
StopsAtLastPage(it) ==
  /\ \A k \in 1..Len(it.resps) : LastPage(it, k) => k = Len(it.resps) /\ Len(it.reqs) = k
  /\ it.state = "done" =>
       /\ Len(it.resps) >= 1
       /\ Len(it.reqs) = Len(it.resps)
       /\ LastPage(it, Len(it.resps))
  /\ \A k \in 1..Len(it.reqs) : k > 1 => ~LastPage(it, k - 1)

\* The pages are asked for in ascending order.
Ascending(it) ==
  \A j, k \in 1..Len(it.reqs) : j < k => it.reqs[j].page < it.reqs[k].page

C7_MissingPaginationStops ==
  \A i \in IterIds : \A k \in 1..Len(its[i].resps) :
    ~HasPagination(its[i], k) =>
      /\ k = Len(its[i].resps)
      /\ Len(its[i].reqs) = k
      /\ its[i].state \in {"suspended", "done"}
      /\ its[i].state = "done" =>
           its[i].yielded = Records(its[i].resps, k - 1) \o
                              (IF Len(its[i].resps[k].animals) = 0 THEN <<>>
                               ELSE its[i].resps[k].animals[1])

C7_Witness ==
  /\ its[1].state = "done"
  /\ Len(its[1].resps) = 2
  /\ ~HasPagination(its[1], 2)
  /\ Len(its[1].resps[2].animals) = 0
  /\ its[1].yielded = <<1>>

\* C8 as stated: the first request of every iteration has page = 1 whatever
\* the caller passes, and every request has limit = 100 or the caller's limit.
C8_AsStated ==
  \A i \in IterIds :
    /\ Len(its[i].reqs) >= 1 => its[i].reqs[1].page = 1
    /\ \A k \in 1..Len(its[i].reqs) :
         its[i].reqs[k].limit =
           (IF Len(its[i].params.limit) = 0 THEN 100 ELSE its[i].params.limit[1])

\* C8 (amended): the first request of every iteration has page = 1 unless the
\* caller supplies a page, in which case it has the caller's page; every
\* request of the iteration has limit = 100 unless the caller supplies a
\* limit, in which case it has the caller's limit.
C8_FirstRequest ==
  \A i \in IterIds :
    /\ Len(its[i].reqs) >= 1 =>
         its[i].reqs[1].page =
           (IF Len(its[i].params.page) = 0 THEN 1 ELSE its[i].params.page[1])
    /\ \A k \in 1..Len(its[i].reqs) :
         its[i].reqs[k].limit =
           (IF Len(its[i].params.limit) = 0 THEN 100 ELSE its[i].params.limit[1])

C8_Witness ==
  /\ Len(its[1].reqs) = 2
  /\ its[1].params = [limit |-> <<50>>, page |-> <<2>>]
  /\ its[1].reqs[1] = [limit |-> 50, page |-> 2]
  /\ its[1].reqs[2].limit = 50

\* The iteration is over: the generator returned or raised.
IterOver(i) == its[i].state \in {"done", "failed"}

\* C9 as stated: whatever (finite) current_page and total_pages the server's
\* answers carry, a consumer that keeps pulling reaches the end of the
\* sequence.
C9_AsStated == <>IterOver(1)

\* C9 (amended): a consumer that keeps pulling reaches the end of the
\* sequence provided no response reports a current_page lower than the page
\* that was asked for (total_pages being bounded, here by MaxPage).
C9_EndsIfServerAdvances == <>(IterOver(1) \/ ~its[1].echoed)

C9_Witness ==
  /\ its[1].state = "done"
  /\ its[1].echoed
  /\ Len(its[1].params.page) = 0
  /\ its[1].q.page = 2

\* C10 as stated: whatever the server answers, every request of an iteration
\* asks for a page strictly greater than every earlier request's.
C10_AsStated == \A i \in IterIds : Ascending(its[i])

\* C10 (amended): every request after the first asks for the page following
\* the current_page of the previous response (the page previously asked for
\* when the response omits it); the pages asked for are strictly increasing
\* as long as no response reports a current_page lower than the page asked.
C10_NextPageFollowsServer ==
  \A i \in IterIds :
    /\ \A k \in 1..Len(its[i].reqs) :
         k > 1 => its[i].reqs[k].page = Reported(its[i], k - 1).current_page + 1
    /\ (\A k \in 1..Len(its[i].resps) :
          Reported(its[i], k).current_page >= its[i].reqs[k].page)
         => Ascending(its[i])

C10_Witness ==
  /\ Len(its[1].reqs) = 2 /\ Len(its[1].resps) = 1
  /\ its[1].reqs[1].page = 2
  /\ its[1].resps[1].pagination[1].current_page = <<1>>
  /\ its[1].reqs[2].page = 2

\* The step issues a page request of iteration i.
Asks(i) == Len(its'[i].reqs) > Len(its[i].reqs)

\* The generator is not running: only next() sets it going.
AtRest(i) == pc = "idle" /\ its[i].state \in {"created", "suspended"}

\* C21: creating the iteration issues no request; a page request is issued
\* only in a next() call, one at a time, when every record of every page
\* received so far has been yielded, the last record of the page before
\* included; and while the consumer holds a record no request of the
\* iteration is under way, so that a consumer that stops asks for nothing.
C21_Lazy ==
  /\ [](\A i \in IterIds :
          /\ its[i].state = "created" => Len(its[i].reqs) = 0
          /\ its[i].state = "suspended" =>
               /\ Len(its[i].reqs) = Len(its[i].resps)
               /\ pc = "idle")
  /\ [][\A i \in IterIds :
          /\ its'[i].state = "created" => call' = call /\ pc' = pc
          /\ Asks(i) =>
               /\ Len(its'[i].reqs) = Len(its[i].reqs) + 1
               /\ AtRest(i) \/ (pc = "returned" /\ owner = i)
               /\ AtRest(i) /\ its[i].state = "suspended" =>
                    its[i].idx = Len(its[i].resps[Len(its[i].resps)].animals[1])
               /\ Len(its'[i].resps) = Len(its[i].reqs)
               /\ its'[i].yielded = Records(its'[i].resps, Len(its'[i].resps))]_vars

\* The consumer has taken the first of the two records of page 1 of 2, and
\* one request has been made.
C21_Witness ==
  /\ its[1].state = "suspended"
  /\ its[1].idx = 1
  /\ its[1].yielded = <<1>>
  /\ its[1].resps[1].animals = << <<1, 2>> >>
  /\ its[1].resps[1].pagination =
       <<[current_page |-> <<1>>, total_pages |-> <<2>>]>>
  /\ Len(its[1].reqs) = 1

\* The queries an iteration that runs alone sends, from query q on, when
\* its requests are answered by resps[k], resps[k + 1], ...
RECURSIVE Alone(_, _, _)
Alone(q, resps, k) ==
  IF k > Len(resps) \/ CurPage(resps[k], q) >= TotalPages(resps[k], q)
  THEN <<q>>
  ELSE <<q>> \o Alone([q EXCEPT !.page = NextPage(resps[k], q)], resps, k + 1)

\* The requests of iteration it are those it would have sent alone against
\* the answers it got.
AsAlone(it) ==
  LET alone == Alone(InitialQuery(it.params), it.resps, 1)
  IN /\ Len(it.reqs) <= Len(alone)
     /\ it.reqs = SubSeq(alone, 1, Len(it.reqs))
     /\ it.state = "done" => it.reqs = alone

\* A request begins that finds a token another request left in the cache.
ReusesToken ==
  /\ pc = "idle"
  /\ pc' = "get1"
  /\ token \notin {NoneV, ""}
  /\ now < token_exp - Margin

\* C24: the requests of each iteration are those it would have sent alone
\* against the answers it got, whatever the other iteration does in
\* between; a step changes one iteration at most; and a request of either
\* iteration is sent with the token that is in the cache, without an
\* exchange, whichever iteration put it there.
C24_OwnCursor ==
  /\ [](\A i \in TwoIds : Len(its[i].reqs) > 0 => AsAlone(its[i]))
  /\ [][/\ \A i \in TwoIds, j \in TwoIds :
            i # j => its'[i] = its[i] \/ its'[j] = its[j]
        /\ ReusesToken =>
             /\ Len(call'.xs) = 0
             /\ <<token', token_exp'>> = <<token, token_exp>>]_vars

\* Iteration 1 was left after the first record of its second page; iteration
\* 2, started later, asks for page 1 with the token iteration 1 obtained.
C24_Witness ==
  /\ its[1].state = "suspended"
  /\ its[1].idx = 1
  /\ Len(its[1].reqs) = 2
  /\ its[1].reqs[2].page = 2
  /\ its[2].state = "running"
  /\ Len(its[2].reqs) = 1
  /\ its[2].reqs[1].page = 1
  /\ owner = 2
  /\ pc = "get1"
  /\ Len(call.xs) = 0
  /\ token = "A"

\* ------------------ properties of parse_petfinder_ts -------------------
\* The string ends in a sign and four digits: an offset written +HHMM.
CompactOffset(s) ==
  /\ Len(s) >= 5
  /\ s[Len(s) - 4] \in {"+", "-"}
  /\ \A k \in (Len(s) - 3)..Len(s) : IsDigit(s[k])

\* The same string with the offset written +HH:MM.
Colon(s) == SubSeq(s, 1, Len(s) - 2) \o <<":">> \o SubSeq(s, Len(s) - 1, Len(s))

\* Timestamps of the API: a date of the calendar, a time of day and an
\* offset of less than a day, in either spelling, or no offset at all.
TsWellFormed ==
  {pre \o d \o c \o o \o post :
     pre \in TsPads, post \in TsPads,
     d \in {x \in TsDates : ~(x[7] = "2" /\ x[9] = "3")},
     c \in {x \in TsClocks : Len(x) > 0 /\ ~(x[2] = "2" /\ x[3] = "4")},
     o \in {x \in TsOffsets : Len(x) = 0 \/ x[2] = "0"}}

ConflictAt(t) == CHOOSE k \in 1..Len(t) : t[k] = "ON"
Values(t) == SubSeq(t, 1, ConflictAt(t) - 1)
ConflictClause(t) == SubSeq(t, ConflictAt(t), Len(t))

\* A cast of a bound parameter: ( :p ) :: timestamptz
CastAt(t, k) ==
  /\ k + 4 <= Len(t)
  /\ t[k] = "(" /\ t[k + 2] = ")" /\ t[k + 3] = "::" /\ t[k + 4] = "timestamptz"

\* The parameters that are cast, and the statement with every cast taken off.
CastParams(t) == {t[k + 1] : k \in {j \in 1..Len(t) : CastAt(t, j)}}

RECURSIVE Uncast(_)
Uncast(t) ==
  IF Len(t) = 0 THEN <<>>
  ELSE IF CastAt(t, 1) THEN <<t[2]>> \o Uncast(SubSeq(t, 6, Len(t)))
  ELSE <<t[1]>> \o Uncast(Tail(t))

\* The conflict clause with the name of the incoming row in lower case.
Lowered(t) == [k \in 1..Len(t) |-> IF t[k] = "EXCLUDED" THEN "excluded" ELSE t[k]]

TimestampParams == {":published_at", ":status_changed_at", ":fetched_at"}
SupportedDialects == {"postgresql", "sqlite"}

Follows(t, x, y) == \E k \in 1..(Len(t) - 1) : t[k] = x /\ t[k + 1] = y

\* C25: build_upsert_sql returns a statement for every dialect name; the
\* statement has the three timestamp casts exactly when the name is
\* "postgresql", and has no cast and an ON CONFLICT clause for every other
\* name; over all names there are two texts.
C25_TwoOutputs ==
  pure.fn = "build_upsert_sql" =>
    /\ Len(pure.sql) > 0
    /\ Follows(pure.sql, "ON", "CONFLICT")
    /\ CastParams(pure.sql) = TimestampParams <=> pure.dialect = "postgresql"
    /\ pure.dialect # "postgresql" => CastParams(pure.sql) = {}
    /\ Cardinality({build_upsert_sql(d) : d \in Dialects}) = 2
    /\ \A d \in Dialects \ {"postgresql"} :
         pure.dialect # "postgresql" => pure.sql = build_upsert_sql(d)

\* The statement has been built for a dialect that has no ON CONFLICT.
C25_Witness ==
  /\ pure.fn = "build_upsert_sql"
  /\ pure.dialect = "mysql"
  /\ CastParams(pure.sql) = {}
  /\ Follows(pure.sql, "ON", "CONFLICT")

\* ------------------------------- _row ----------------------------------
\* Raw records of the API.  Every key may be missing (<<>>); a contact and
\* an address are JSON objects or null, which the flag of the value says.
NullAddress == [null |-> TRUE, city |-> <<>>, state |-> <<>>]
NullContact == [null |-> TRUE, address |-> <<>>]
Austin == [null |-> FALSE, city |-> <<"Austin">>, state |-> <<"TX">>]
RawTom ==
  [id |-> <<1>>, name |-> <<"Tom">>, type |-> <<"Cat">>, age |-> <<"Senior">>,
   gender |-> <<"Female">>, status |-> <<"adoptable">>, organization_id |-> <<"TX1">>,
   contact |-> <<[null |-> FALSE, address |-> <<Austin>>]>>,
   published_at |-> <<<<"2", "0", "2", "5", "-", "0", "8", "-", "1", "6", "T", "1", "2", ":", "2", "8", ":", "0", "2", "+", "0", "0", "0", "0">>>>,
   status_changed_at |-> <<<<"2", "0", "2", "5", "-", "0", "8", "-", "1", "6", "T", "1", "2", ":", "2", "8", ":", "0", "2", "-", "0", "5", "3", "0">>>>,
   fetched_at |-> <<<<"1", "9", "7", "0", "-", "0", "1", "-", "0", "1">>>>]

RawTomLater ==
  [id |-> <<1>>, name |-> <<"Tommy">>, type |-> <<"Cat">>, age |-> <<"Senior">>,
   gender |-> <<"Female">>, status |-> <<"adopted">>, organization_id |-> <<"TX1">>,
   contact |-> <<>>,
   published_at |-> <<<<"2", "0", "2", "5", "-", "0", "8", "-", "1", "6", "T", "1", "2", ":", "2", "8", ":", "0", "2", "+", "0", "0", "0", "0">>>>,
   status_changed_at |-> <<>>,
   fetched_at |-> <<>>]

RawKit ==
  [id |-> <<2>>, name |-> <<>>, type |-> <<"Cat">>, age |-> <<"Senior">>,
   gender |-> <<"Female">>, status |-> <<"adoptable">>, organization_id |-> <<"TX1">>,
   contact |-> <<[null |-> FALSE, address |-> <<>>]>>,
   published_at |-> <<>>,
   status_changed_at |-> <<>>,
   fetched_at |-> <<>>]

RawBad ==
  [id |-> <<3>>, name |-> <<"Bad">>, type |-> <<"Cat">>, age |-> <<"Senior">>,
   gender |-> <<"Female">>, status |-> <<"adoptable">>, organization_id |-> <<"TX1">>,
   contact |-> <<>>,
   published_at |-> <<<<"s", "o", "o", "n">>>>,
   status_changed_at |-> <<>>,
   fetched_at |-> <<>>]

RawNoId ==
  [id |-> <<>>, name |-> <<"Nobody">>, type |-> <<"Cat">>, age |-> <<"Senior">>,
   gender |-> <<"Female">>, status |-> <<"adoptable">>, organization_id |-> <<"TX1">>,
   contact |-> <<>>,
   published_at |-> <<>>,
   status_changed_at |-> <<>>,
   fetched_at |-> <<>>]

\* a.get(key) on a key that may be missing.
GetOrNone(o) == Get(o, NoneV)

\* x or {}: the empty object when x is missing, null or empty.
OrEmpty(o, empty) == IF Len(o) = 0 \/ o[1].null THEN empty ELSE o[1]

\* contact = a.get("contact") or {}
NoContact == [null |-> FALSE, address |-> <<>>]
Contact(a) == OrEmpty(a.contact, NoContact)

\* address = contact.get("address") or {}
NoAddress == [null |-> FALSE, city |-> <<>>, state |-> <<>>]
Address(a) == OrEmpty(Contact(a).address, NoAddress)

\* Mutant: fetched_at is taken from the record when the record has one.
_row_FetchedFromSource(a, t, local) ==
  LET pub == parse_petfinder_ts(a.published_at, local)
      chg == parse_petfinder_ts(a.status_changed_at, local)
      own == parse_petfinder_ts(a.fetched_at, local)
  IN [ok |-> Len(a.id) > 0 /\ pub.kind # "error" /\ chg.kind # "error",
      row |-> [id |-> Get(a.id, 0),
               name |-> GetOrNone(a.name), type |-> GetOrNone(a.type),
               age |-> GetOrNone(a.age), gender |-> GetOrNone(a.gender),
               status |-> GetOrNone(a.status),
               org_id |-> GetOrNone(a.organization_id),
               city |-> GetOrNone(Address(a).city),
               state |-> GetOrNone(Address(a).state),
               published_at |-> pub, status_changed_at |-> chg,
               fetched_at |-> IF own.kind = "datetime" THEN own
                              ELSE DateTime(t, <<0>>)]]

\* _row(a) at time t on a machine whose zone is local: the row, or ok FALSE
\* when a["id"] raises KeyError or a timestamp raises ValueError.
_row(a, t, local) ==
  LET pub == parse_petfinder_ts(a.published_at, local)
      chg == parse_petfinder_ts(a.status_changed_at, local)
  IN [ok |-> Len(a.id) > 0 /\ pub.kind # "error" /\ chg.kind # "error",
      row |-> [id |-> Get(a.id, 0),
               name |-> GetOrNone(a.name), type |-> GetOrNone(a.type),
               age |-> GetOrNone(a.age), gender |-> GetOrNone(a.gender),
               status |-> GetOrNone(a.status),
               org_id |-> GetOrNone(a.organization_id),
               city |-> GetOrNone(Address(a).city),
               state |-> GetOrNone(Address(a).state),
               published_at |-> pub, status_changed_at |-> chg,
               fetched_at |-> DateTime(t, <<0>>)]]

\* The records _row is applied to: RawTom with every shape of the contact
\* nesting, with and without an id, with a published_at that is missing,
\* well-formed or malformed, and with and without a fetched_at of its own.
RowContacts ==
  {<<>>, <<NullContact>>, <<NoContact>>,
   <<[null |-> FALSE, address |-> <<NullAddress>>]>>,
   <<[null |-> FALSE, address |-> <<NoAddress>>]>>,
   <<[null |-> FALSE, address |-> <<Austin>>]>>}
RowInputs ==
  {[RawTom EXCEPT !.id = i, !.contact = c, !.published_at = p, !.fetched_at = f] :
     i \in {<<>>, <<1>>}, c \in RowContacts,
     p \in {<<>>, <<TsExample>>, RawBad.published_at},
     f \in {<<>>, RawTom.fetched_at}}
RowTimes == {0, Margin}

\* _row(a) at time t.
ApplyRow(a, t, local) ==
  /\ pure.fn = "none"
  /\ pure' = [NoPure EXCEPT !.fn = "_row", !.raw = <<a>>, !.at = t,
                            !.local = local, !.out = <<_row(a, t, local)>>]
  /\ UNCHANGED <<ctorVars, token, token_exp, now, pc, owner, call, its,
                 sink, etl>>

NextRow ==
  \E a \in RowInputs, t \in RowTimes, local \in LocalOffsets : ApplyRow(a, t, local)

SpecRow == Init /\ [][NextRow]_vars

\* -------------------------- properties of _row -------------------------
RowFields ==
  {"id", "name", "type", "age", "gender", "status", "org_id", "city", "state",
   "published_at", "status_changed_at", "fetched_at"}

\* The contact of the record, or the address in it, is missing or null.
NoNesting(a) ==
  \/ Len(a.contact) = 0
  \/ a.contact[1].null
  \/ Len(a.contact[1].address) = 0
  \/ a.contact[1].address[1].null

\* Both timestamps of the record are missing, empty or well-formed.
TimestampsParse(a, local) ==
  /\ parse_petfinder_ts(a.published_at, local).kind # "error"
  /\ parse_petfinder_ts(a.status_changed_at, local).kind # "error"

\* What _row returns is a row of the twelve fields, with both city and state
\* None when the nesting is missing or null, and with the time of the
\* mapping as fetched_at whatever the record carries.
RowAsClaimed(a, t, out) ==
  /\ out.ok
  /\ DOMAIN out.row = RowFields
  /\ out.row.id = a.id[1]
  /\ NoNesting(a) => out.row.city = NoneV /\ out.row.state = NoneV
  /\ out.row.fetched_at = DateTime(t, <<0>>)

\* C22 as stated: for every raw record that has an id, _row returns such a
\* row.
C22_AsStated ==
  pure.fn = "_row" /\ Len(pure.raw[1].id) > 0 =>
    RowAsClaimed(pure.raw[1], pure.at, pure.out[1])

\* C22: for every raw record that has an id and whose two timestamps are
\* missing, empty or well-formed, _row returns such a row; with an id, it
\* raises exactly when a timestamp is malformed, whatever the nesting is.
C22_RowOfTwelve ==
  pure.fn = "_row" /\ Len(pure.raw[1].id) > 0 =>
    IF TimestampsParse(pure.raw[1], pure.local)
    THEN RowAsClaimed(pure.raw[1], pure.at, pure.out[1])
    ELSE ~pure.out[1].ok

\* A record with a null contact and a fetched_at of its own has been mapped
\* at time Margin.
C22_Witness ==
  /\ pure.fn = "_row"
  /\ pure.raw[1].id = <<1>>
  /\ pure.raw[1].contact = <<NullContact>>
  /\ Len(pure.raw[1].fetched_at) > 0
  /\ pure.at = Margin
  /\ pure.out[1].ok
  /\ pure.out[1].row.city = NoneV
  /\ pure.out[1].row.fetched_at = DateTime(Margin, <<0>>)

\* ------------------------------ the sink -------------------------------
\* What the database does with the statement, read off its tokens: the
\* columns of the INSERT, the bound parameter of each, the conflict target
\* and the columns the conflict clause overwrites.
TableName == "tmp_animals_sample"

\* The name of the bound parameter that takes each key of a row.
ParamOf ==
  [id |-> ":id", name |-> ":name", type |-> ":type", age |-> ":age",
   gender |-> ":gender", status |-> ":status", org_id |-> ":org_id",
   city |-> ":city", state |-> ":state", published_at |-> ":published_at",
   status_changed_at |-> ":status_changed_at", fetched_at |-> ":fetched_at"]
KeyOf(param) == CHOOSE f \in DOMAIN ParamOf : ParamOf[f] = param

NotComma(x) == x # ","
First(t, x) == CHOOSE k \in 1..Len(t) : t[k] = x /\ \A j \in 1..(k - 1) : t[j] # x

\* INSERT INTO table ( columns ) VALUES ( parameters ) ON CONFLICT ...
InsertColumns(t) == SelectSeq(SubSeq(t, 5, First(t, ")") - 1), NotComma)
ValueParams(t) ==
  SelectSeq(Uncast(SubSeq(t, First(t, "VALUES") + 2, ConflictAt(t) - 2)), NotComma)

\* ON CONFLICT ( target ) DO UPDATE SET column = excluded . column , ...
ConflictTarget(t) == t[ConflictAt(t) + 3]

\* Mutant: the conflict clause leaves fetched_at as it was.
UpdateSet_NoFetchedAt(t) ==
  {<<t[k], t[k + 4]>> :
     k \in {j \in ConflictAt(t)..(Len(t) - 4) :
              /\ t[j + 1] = "=" /\ t[j + 2] \in {"excluded", "EXCLUDED"}
              /\ t[j + 3] = "." /\ t[j] # "fetched_at"}}

\* The assignments of the conflict clause: <<column, column of the new row>>.
UpdateSet(t) ==
  {<<t[k], t[k + 4]>> :
     k \in {j \in ConflictAt(t)..(Len(t) - 4) :
              /\ t[j + 1] = "=" /\ t[j + 2] \in {"excluded", "EXCLUDED"}
              /\ t[j + 3] = "."}}

\* The row the statement proposes for the bound row r.
Incoming(t, r) ==
  LET cols == InsertColumns(t)
      ps == ValueParams(t)
  IN [c \in {cols[k] : k \in 1..Len(cols)} |->
        r[KeyOf(ps[CHOOSE k \in 1..Len(cols) : cols[k] = c])]]

\* Mutant: the table is emptied before the row goes in.
Upsert_Replace(table, t, r) == {Incoming(t, r)}

\* One execution of the statement on the rows of the table.
Upsert(table, t, r) ==
  LET inc == Incoming(t, r)
      key == ConflictTarget(t)
      hit == {x \in table : x[key] = inc[key]}
  IN IF hit = {} THEN table \cup {inc}
     ELSE (table \ hit) \cup
          {[c \in DOMAIN x |->
              IF \E a \in UpdateSet(t) : a[1] = c
              THEN inc[(CHOOSE a \in UpdateSet(t) : a[1] = c)[2]]
              ELSE x[c]] : x \in hit}

\* The ::timestamptz cast is PostgreSQL syntax.
Accepts(dialect, t) == dialect = "postgresql" \/ CastParams(t) = {}

\* The row last supplied for each id.
Supplied(latest, r) == {x \in latest : x.id # r.id} \cup {r}

\* A transaction after the first k rows of an executemany.
RECURSIVE ExecMany(_, _, _, _)
ExecMany(tx, t, rows, k) ==
  IF k = 0 THEN tx
  ELSE LET before == ExecMany(tx, t, rows, k - 1)
       IN [before EXCEPT !.rows = Upsert(@, t, rows[k]),
                         !.latest = Supplied(@, rows[k])]

\* CREATE TABLE IF NOT EXISTS, as the first statement of a session.  The
\* sqlite3 driver opens no transaction for DDL, so that there it is durable
\* at once; PostgreSQL runs it inside the transaction.
ExecDDL(s) ==
  [s EXCEPT !.tx = <<[tables |-> s.tables \cup {TableName},
                      rows |-> s.committed, latest |-> s.latest]>>,
            !.tables = IF s.dialect = "postgresql" THEN @
                       ELSE @ \cup {TableName}]

\* Mutant: a session that is closed commits what it has done so far.
Rollback_Commit(s) ==
  [s EXCEPT !.tx = <<>>, !.committed = s.tx[1].rows, !.latest = s.tx[1].latest]

\* Session.close() with work that was not committed.
Rollback(s) == [s EXCEPT !.tx = <<>>]

\* Session.commit()
Commit(s) ==
  [s EXCEPT !.tx = <<>>, !.tables = s.tx[1].tables,
            !.committed = s.tx[1].rows, !.latest = s.tx[1].latest]

\* ------------------------------- main ----------------------------------
\* The keyword arguments main() passes to iter_animals, as far as the
\* client looks at them.
PARAMS == [limit |-> <<100>>, page |-> <<>>]

\* The responses of /animals to a run.
EtlAnimalLists ==
  {<<>>, <<RawTom>>, <<RawTomLater, RawKit>>, <<RawKit>>, <<RawBad>>, <<RawNoId>>}
EtlPaginations == {<<>>, <<[current_page |-> <<1>>, total_pages |-> <<2>>]>>}
\* A run maps at most the records of MaxRequests pages of two records.
MaxRows == MaxRequests * 2
EtlPageBodies == {[animals |-> <<l>>, pagination |-> p] : l \in EtlAnimalLists, p \in EtlPaginations}
EtlEnvVals == {NoneV, "env"}

\* The server answers the GETs of a run with 200 or 500: the retry after a
\* 401 is the business of _get and is left out of the runs.
EtlStatuses == {200, 500}

\* Mutant: loading starts as soon as there is a row.
Collected_Eager(it, rows) == Len(rows) > 0 /\ Len(rows) = Len(it.yielded)

\* The list comprehension is over: the generator has ended and every record
\* it yielded has been mapped.
Collected(it, rows) == it.state = "done" /\ Len(rows) = Len(it.yielded)

\* Mutant: the sink is opened even when there is nothing to load.
NothingToLoad_Never(rows) == FALSE

\* if not rows
NothingToLoad(rows) == Len(rows) = 0

\* The run has ended with an exception.
RunFailed == etl.pc = "failed" \/ (etl.pc = "fetch" /\ its[1].state = "failed")
RunOver == etl.pc \in {"idle", "done"} \/ RunFailed

\* main() up to the list comprehension: a new client from the environment,
\* and the generator, which has not run yet.  A run starts Margin seconds
\* after the one before it.
EtlStart(eid, esecret) ==
  /\ RunOver
  /\ etl.run < MaxRuns
  /\ ctor' = [id |-> NoneV, secret |-> NoneV, env_id |-> eid, env_secret |-> esecret]
  /\ client_id' = Or(NoneV, eid)
  /\ client_secret' = Or(NoneV, esecret)
  /\ cstate' = IF MissingCredentials(client_id', client_secret')
               THEN "failed" ELSE "ready"
  /\ token' = NoneV
  /\ token_exp' = 0
  /\ pc' = "idle"
  /\ owner' = 0
  /\ call' = NoCall
  /\ its' = [its EXCEPT ![1] =
               IF cstate' = "ready"
               THEN [NoIter EXCEPT !.state = "created", !.params = PARAMS]
               ELSE NoIter]
  /\ etl' = [pc |-> IF cstate' = "ready" THEN "fetch" ELSE "failed",
             run |-> etl.run + 1, rows |-> <<>>, ops |-> <<>>,
             before |-> [tables |-> sink.tables, rows |-> sink.committed]]
  /\ now' = IF etl.run = 0 THEN now ELSE now + Margin
  /\ UNCHANGED <<pure, sink>>

\* The list comprehension asks the generator for the next record.
EtlPull(r) ==
  /\ etl.pc = "fetch"
  /\ Len(its[1].yielded) = Len(etl.rows)
  /\ IterNext(1, r, TRUE)

\* _row(a) on the record the generator has just yielded.
EtlMap(local) ==
  /\ etl.pc = "fetch"
  /\ pc = "idle"
  /\ Len(its[1].yielded) > Len(etl.rows)
  /\ LET m == _row(its[1].yielded[Len(etl.rows) + 1], now, local)
     IN etl' = IF m.ok THEN [etl EXCEPT !.rows = Append(@, m.row)]
               ELSE [etl EXCEPT !.pc = "failed"]
  /\ UNCHANGED <<ctorVars, token, token_exp, now, pc, owner, call, its,
                 pure, sink>>

\* The end of the fetch: return when there are no rows, else go on to load.
EtlCollected ==
  /\ etl.pc = "fetch"
  /\ pc = "idle"
  /\ Collected(its[1], etl.rows)
  /\ etl' = [etl EXCEPT !.pc = IF NothingToLoad(etl.rows) THEN "done" ELSE "ddl"]
  /\ UNCHANGED <<ctorVars, token, token_exp, now, pc, owner, call, its,
                 pure, sink>>

\* with SessionLocal() as db: db.execute(text(DDL)).  An exception leaves
\* the with block, which closes the session.
EtlDDL(ok) ==
  /\ etl.pc = "ddl"
  /\ sink' = IF ok THEN ExecDDL(sink) ELSE sink
  /\ etl' = [etl EXCEPT !.pc = IF ok THEN "upsert" ELSE "failed",
                        !.ops = @ \o (IF ok THEN <<"begin", "ddl">>
                                      ELSE <<"begin", "ddl", "rollback">>)]
  /\ UNCHANGED <<ctorVars, token, token_exp, now, pc, owner, call, its, pure>>

\* stmt = upsert_stmt_for(db); db.execute(stmt, rows): the rows go in one
\* after the other, and the k+1st fails when k is less than their number.
EtlUpsert(k) ==
  /\ etl.pc = "upsert"
  /\ k <= Len(etl.rows)
  /\ LET stmt == build_upsert_sql(sink.dialect)
         n == IF Accepts(sink.dialect, stmt) THEN k ELSE 0
         ok == n = Len(etl.rows)
         written == [sink EXCEPT !.tx = <<ExecMany(sink.tx[1], stmt, etl.rows, n)>>]
     IN /\ sink' = IF ok THEN written ELSE Rollback(written)
        /\ etl' = [etl EXCEPT !.pc = IF ok THEN "commit" ELSE "failed",
                              !.ops = @ \o (IF ok THEN <<"upsert">>
                                            ELSE <<"upsert", "rollback">>)]
  /\ UNCHANGED <<ctorVars, token, token_exp, now, pc, owner, call, its, pure>>

\* db.commit(), and the end of main().
EtlCommit(ok) ==
  /\ etl.pc = "commit"
  /\ sink' = IF ok THEN Commit(sink) ELSE Rollback(sink)
  /\ etl' = [etl EXCEPT !.pc = IF ok THEN "done" ELSE "failed",
                        !.ops = @ \o (IF ok THEN <<"commit">>
                                      ELSE <<"commit", "rollback">>)]
  /\ UNCHANGED <<ctorVars, token, token_exp, now, pc, owner, call, its, pure>>

\* Runs of main() against a database of either dialect.
EtlDialects == {"sqlite", "postgresql"}

InitEtl ==
  /\ cstate = "unconstructed"
  /\ ctor = [id |-> NoneV, secret |-> NoneV, env_id |-> NoneV, env_secret |-> NoneV]
  /\ client_id = NoneV
  /\ client_secret = NoneV
  /\ token = NoneV
  /\ token_exp = 0
  /\ now = 0
  /\ pc = "idle"
  /\ owner = 0
  /\ call = NoCall
  /\ its = [i \in IterIds |-> NoIter]
  /\ pure = NoPure
  /\ \E d \in EtlDialects : sink = [EmptySink EXCEPT !.dialect = d]
  /\ etl = NoRun

NextEtl ==
  \/ \E eid \in EtlEnvVals, esecret \in EtlEnvVals : EtlStart(eid, esecret)
  \/ \E r \in IterTokResponses : EtlPull(r)
  \/ \E s \in EtlStatuses, b \in EtlPageBodies : SendGet1(s, b)
  \/ \E r \in IterTokResponses : IterResume(1, r, TRUE)
  \/ \E local \in LocalOffsets : EtlMap(local)
  \/ EtlCollected
  \/ \E ok \in BOOLEAN : EtlDDL(ok)
  \/ \E k \in 0..MaxRows : EtlUpsert(k)
  \/ \E ok \in BOOLEAN : EtlCommit(ok)

SpecEtl == InitEtl /\ [][NextEtl]_vars

\* ------------------------ properties of the sink -----------------------
Ids(rows) == {r.id : r \in rows}
RowIds(rs) == {rs[k].id : k \in 1..Len(rs)}

\* The rows hold one row for each id supplied so far, and the row of an id
\* has in every other column what was last supplied for that id.
LatestWins(rows, latest) ==
  /\ \A r1 \in rows, r2 \in rows : r1.id = r2.id => r1 = r2
  /\ Ids(rows) = Ids(latest)
  /\ \A r \in rows : \E l \in latest :
       l.id = r.id /\ \A c \in DOMAIN r \ {"id"} : r[c] = l[c]

\* C12: after any sequence of upserts, committed or still in the open
\* transaction, the table holds exactly one row for each id ever upserted,
\* and every non-key column of that row is what the latest upsert of the id
\* supplied.
C12_UpsertLatestWins ==
  /\ LatestWins(sink.committed, sink.latest)
  /\ Len(sink.tx) > 0 => LatestWins(sink.tx[1].rows, sink.tx[1].latest)

\* A second run has written id 1 again, with another name and a later
\* fetched_at: the table has two rows as before, and row 1 is the new one.
C12_Witness ==
  /\ etl.pc = "done"
  /\ Cardinality(etl.before.rows) = 2
  /\ \E r \in etl.before.rows : r.id = 1 /\ r.name = "Tommy"
  /\ Cardinality(sink.committed) = 2
  /\ \E r \in sink.committed :
       r.id = 1 /\ r.name = "Tom" /\ r.fetched_at = DateTime(Margin, <<0>>)

\* C13: no step takes a row out of the committed table, and a step changes
\* a committed row only when its id is among the ids fetched in the run;
\* every id that was ever loaded is still there.
C13_NeverDeletes ==
  /\ [](Ids(sink.latest) \subseteq Ids(sink.committed))
  /\ [][\A r \in sink.committed : \E r2 \in sink.committed' :
          /\ r2.id = r.id
          /\ r.id \notin RowIds(etl.rows) => r2 = r]_vars

\* A second run that fetched id 2 only has committed next to the row of
\* id 1, which is as the first run left it.
C13_Witness ==
  /\ etl.pc = "done"
  /\ etl.run = 2
  /\ RowIds(etl.rows) = {2}
  /\ \E r \in sink.committed : r.id = 1 /\ r \in etl.before.rows
  /\ \E r \in sink.committed : r.id = 2 /\ r \notin etl.before.rows

\* --------------------------- properties of main ------------------------
\* The row of rows that the table holds after all of them went in.
LastOf(rs, id) ==
  rs[CHOOSE k \in 1..Len(rs) :
       rs[k].id = id /\ \A j \in (k + 1)..Len(rs) : rs[j].id # id]

\* C14: a run that failed, at whatever step, has left the committed rows as
\* they were when it started and no transaction open; a run whose fetch
\* failed does not go on to load; a run that ended well has fetched and
\* mapped everything and, if it did anything to the sink, did all of it; and
\* the committed rows change only by the commit of a run, which brings in
\* every row of the run.
C14_AllOrNothing ==
  /\ [](/\ RunFailed => sink.committed = etl.before.rows /\ Len(sink.tx) = 0
        /\ its[1].state = "failed" => etl.pc = "fetch"
        /\ etl.pc = "done" =>
             /\ its[1].state = "done"
             /\ Len(etl.rows) = Len(its[1].yielded)
             /\ etl.ops \in {<<>>, <<"begin", "ddl", "upsert", "commit">>}
             /\ Len(sink.tx) = 0)
  /\ [][sink.committed' # sink.committed =>
          /\ etl.pc = "commit" /\ etl'.pc = "done"
          /\ Ids(sink.committed') = Ids(sink.committed) \cup RowIds(etl.rows)
          /\ \A r \in sink.committed' :
               IF r.id \in RowIds(etl.rows) THEN r = LastOf(etl.rows, r.id)
               ELSE r \in sink.committed]_vars

\* A second run has failed in the middle of its writes: two rows were to be
\* written, the transaction was rolled back, and the table is as the first
\* run left it.
C14_Witness ==
  /\ etl.pc = "failed"
  /\ etl.run = 2
  /\ Len(etl.rows) = 2
  /\ etl.ops = <<"begin", "ddl", "upsert", "rollback">>
  /\ Cardinality(sink.committed) = 1
  /\ sink.committed = etl.before.rows

\* C15: a run whose fetch yielded no record ends well and has not touched
\* the sink: no transaction, no DDL, no upsert, no commit, and the tables and
\* rows of before.
C15_NothingToLoad ==
  /\ [](etl.pc = "done" /\ Len(etl.rows) = 0 =>
          /\ etl.ops = <<>>
          /\ Len(sink.tx) = 0
          /\ sink.tables = etl.before.tables
          /\ sink.committed = etl.before.rows)
  /\ [][(etl.pc = "fetch" /\ its[1].state = "done"
           /\ Len(its[1].yielded) = 0 /\ etl' # etl)
          => (etl'.pc = "done" /\ sink' = sink)]_vars

\* A first run on a new database has ended after two pages without records.
C15_Witness ==
  /\ etl.pc = "done"
  /\ etl.run = 1
  /\ Len(its[1].resps) = 2
  /\ Len(its[1].yielded) = 0
  /\ sink.tables = {}

\* C16: while the run is at the sink, the generator has ended, every record
\* it yielded has been mapped and no request is under way; and from the
\* first sink operation on the run makes no request.
C16_FetchThenLoad ==
  /\ [](Len(etl.ops) > 0 \/ etl.pc \in {"ddl", "upsert", "commit"} =>
          /\ its[1].state = "done"
          /\ Len(etl.rows) = Len(its[1].yielded)
          /\ pc = "idle")
  /\ [][Len(etl'.ops) > 0 => its' = its /\ call' = call /\ pc' = pc]_vars

\* Three records of two pages have gone into the sink.
C16_Witness ==
  /\ etl.ops = <<"begin", "ddl", "upsert", "commit">>
  /\ Len(its[1].reqs) = 2
  /\ Len(etl.rows) = 3

====
